---------------------------- MODULE Spec2Model ----------------------------
(***************************************************************************)
(* Model of the Sentinel native inference bridge (llama.cpp JNI layer).    *)
(*                                                                         *)
(* The JNI entry points (initModel, infer, inferWithGrammar, releaseModel, *)
(* isModelReady, setInferenceParams) are translated from native-lib.cpp;   *)
(* run_inference, create_sampler, tokenize and apply_chat_template from    *)
(* native_inference.cpp / native_utils.cpp (the copies in native-lib.cpp   *)
(* are the same code without the try/catch around the sampler calls);      *)
(* sanitize and contains_injection from sentinel.hpp.                      *)
(*                                                                         *)
(* Text is a sequence of byte values 0..255.  Native handles are ids of a  *)
(* small heap, 0 being the null pointer.                                   *)
(***************************************************************************)
EXTENDS Integers, Sequences, FiniteSets, TLC

-----------------------------------------------------------------------------
(* Bytes and text *)

LowerLetters == <<"a","b","c","d","e","f","g","h","i","j","k","l","m",
                  "n","o","p","q","r","s","t","u","v","w","x","y","z">>
UpperLetters == <<"A","B","C","D","E","F","G","H","I","J","K","L","M",
                  "N","O","P","Q","R","S","T","U","V","W","X","Y","Z">>

\* ASCII code of a one-character string (letters, space, tab, newline, and
\* two representatives: "^A" for the control byte 0x01, "~E" for byte 0xE9).
Ord(ch) ==
    IF \E i \in 1..26 : LowerLetters[i] = ch
      THEN 96 + (CHOOSE i \in 1..26 : LowerLetters[i] = ch)
    ELSE IF \E i \in 1..26 : UpperLetters[i] = ch
      THEN 64 + (CHOOSE i \in 1..26 : UpperLetters[i] = ch)
    ELSE IF ch = " "  THEN 32
    ELSE IF ch = "\t" THEN 9
    ELSE IF ch = "\n" THEN 10
    ELSE IF ch = "^A" THEN 1
    ELSE IF ch = "~E" THEN 233
    ELSE 63

\* The byte string spelled by a tuple of one-character strings.
Str(t) == [i \in 1..Len(t) |-> Ord(t[i])]

Min(a, b) == IF a < b THEN a ELSE b
Max(a, b) == IF a > b THEN a ELSE b

\* std::string::find(pattern) != npos
Contains(hay, pat) ==
    \E i \in 0..(Len(hay) - Len(pat)) : SubSeq(hay, i + 1, i + Len(pat)) = pat

IsPrefix(p, s) == Len(p) <= Len(s) /\ SubSeq(s, 1, Len(p)) = p

-----------------------------------------------------------------------------
(* sentinel.hpp *)

INJECTION_PATTERNS == <<
    Str(<<"i","g","n","o","r","e"," ","p","r","e","v","i","o","u","s">>),
    Str(<<"i","g","n","o","r","e"," ","a","l","l">>),
    Str(<<"d","i","s","r","e","g","a","r","d">>),
    Str(<<"f","o","r","g","e","t"," ","e","v","e","r","y","t","h","i","n","g">>),
    Str(<<"n","e","w"," ","i","n","s","t","r","u","c","t","i","o","n","s">>),
    Str(<<"s","y","s","t","e","m"," ","p","r","o","m","p","t">>),
    Str(<<"y","o","u"," ","a","r","e"," ","n","o","w">>),
    Str(<<"a","c","t"," ","a","s">>),
    Str(<<"p","r","e","t","e","n","d"," ","t","o"," ","b","e">>),
    Str(<<"j","a","i","l","b","r","e","a","k">>),
    Str(<<"D","A","N"," ","m","o","d","e">>),
    Str(<<"d","e","v","e","l","o","p","e","r"," ","m","o","d","e">>) >>

\* std::tolower in the "C" locale on an unsigned char
tolower(c) == IF c \in 65..90 THEN c + 32 ELSE c

\* the filter of sanitize's loop body: bytes that are kept
Kept(c) == c >= 32 \/ c = 10 \/ c = 9 \/ c >= 128

\* the loop with "last_space = is_space" moved out of the filter, so that a
\* dropped byte ends a run of spaces
RECURSIVE SanitizeLoop_ResetOnDropped(_, _, _, _, _)
SanitizeLoop_ResetOnDropped(input, n, i, last_space, acc) ==
    IF i > n THEN acc
    ELSE LET c == input[i]
             is_space == (c = 32 \/ c = 9)
         IN  SanitizeLoop_ResetOnDropped(input, n, i + 1, is_space,
                 IF Kept(c) /\ (~is_space \/ ~last_space)
                   THEN Append(acc, IF is_space THEN 32 ELSE c)
                   ELSE acc)

\* sanitize's loop over input[0 .. min(size, max_len)): i is the 1-based
\* index of the next byte, acc the result so far.
RECURSIVE SanitizeLoop(_, _, _, _, _)
SanitizeLoop(input, n, i, last_space, acc) ==
    IF i > n THEN acc
    ELSE LET c == input[i]
             is_space == (c = 32 \/ c = 9)
         IN  IF Kept(c)
               THEN SanitizeLoop(input, n, i + 1, is_space,
                        IF ~is_space \/ ~last_space
                          THEN Append(acc, IF is_space THEN 32 ELSE c)
                          ELSE acc)
               ELSE SanitizeLoop(input, n, i + 1, last_space, acc)

TrimSet == {32, 10, 9}

\* sanitize filtering the whole input and cutting the result, not the
\* input, to max_len
sanitize_TruncatesAfter(input, max_len) ==
    LET all    == SanitizeLoop(input, Len(input), 1, FALSE, <<>>)
        result == SubSeq(all, 1, Min(Len(all), max_len))
        keep   == {i \in 1..Len(result) : result[i] \notin TrimSet}
    IN  IF keep = {} THEN <<>>
        ELSE LET start == CHOOSE i \in keep : \A j \in keep : i <= j
                 end   == CHOOSE i \in keep : \A j \in keep : i >= j
             IN  SubSeq(result, start, end)

sanitize(input, max_len) ==
    LET result == SanitizeLoop(input, Min(Len(input), max_len), 1, FALSE, <<>>)
        keep   == {i \in 1..Len(result) : result[i] \notin TrimSet}
    IN  IF keep = {} THEN <<>>
        ELSE LET start == CHOOSE i \in keep : \A j \in keep : i <= j
                 end   == CHOOSE i \in keep : \A j \in keep : i >= j
             IN  SubSeq(result, start, end)

contains_injection(input) ==
    LET lower == [i \in 1..Len(input) |-> tolower(input[i])]
    IN  \E k \in 1..Len(INJECTION_PATTERNS) : Contains(lower, INJECTION_PATTERNS[k])

-----------------------------------------------------------------------------
(* Bounds of the model *)

\* the sampler yields an end-of-generation token at the latest at this step
MaxGen == 2
\* native handles the allocator can hand out
NHandles == 4
\* width of size_t in the model (64 in the build; the arithmetic is the same
\* modulo 2^SizeBits, and TLC's integers stop at 2^31)
SizeBits == 24

Threads == {"t1", "t2"}

\* (temperature, top_p in hundredths, max_tokens) given to setInferenceParams
ParamChoices == { <<0, 100, -1>>, <<30, 90, 0>>, <<0, 100, 1>>,
                  <<30, 90, 2>>, <<0, 100, 4097>> }

\* model files: whether llama_model_load_from_file succeeds on them, and the
\* chat template stored in them ("" stands for none: a null pointer)
ModelFiles == [ p \in {"model.gguf", "plain.gguf", "missing.gguf"} |->
                  [ loads    |-> p # "missing.gguf",
                    template |-> IF p = "model.gguf" THEN "jinja" ELSE "" ] ]

\* grammar files: "" is the empty path, "missing.gbnf" cannot be opened
GrammarFiles == [ p \in {"", "missing.gbnf", "action.gbnf", "broken.gbnf"} |->
                  [ opens |-> p \in {"action.gbnf", "broken.gbnf"},
                    text  |-> IF p = "action.gbnf" THEN "root ::= object"
                              ELSE IF p = "broken.gbnf" THEN "root ::= (" ELSE "" ] ]

\* llama_sampler_init_grammar parses the text; it returns null on a bad grammar
GrammarCompiles(text) == text = "root ::= object"

UserQueries == { Str(<<"t","a","p">>),
                 Str(<<"D","A","N"," ","m","o","d","e">>),
                 Str(<<"A","C","T"," ","A","S">>),
                 Str(<<"a","c","t","^A"," ","a","s">>),
                 Str(<<" ","h","i","\t"," ","~E","\n">>) }

ScreenContexts == { <<>>, Str(<<"o","k">>) }

\* results of llama_tokenize: a count that fits the buffer, 0 or a negative
\* value whose magnitude is the size needed
TokenizeFirst == {0, 5, -4095, -4097, -4098}
\* the retry into a buffer of the size asked for: the tokens, nothing, or a
\* negative value again
TokenizeRetry(first) == {-first, 0, first}

\* tokens the sampler can draw; EOG is the end-of-generation token
EOG == 0
Tokens == {0, 1, 2, 3}

\* llama_token_to_piece(token, buf, 128): the bytes written and the value
\* returned (negative: the piece does not fit in buf, nothing is written)
\* the end-of-generation token renders as "</s>"
PieceOf(tok) ==
    IF tok = EOG THEN [n |-> 4, bytes |-> <<60, 47, 115, 62>>]
    ELSE IF tok = 1 THEN [n |-> 2, bytes |-> Str(<<"o","k">>)]
    ELSE IF tok = 2 THEN [n |-> 17, bytes |-> [i \in 1..17 |-> 96 + i]]
    ELSE [n |-> -200, bytes |-> <<>>]

-----------------------------------------------------------------------------
(* State *)

VARIABLES
    g_state,        \* the ModelState singleton
    g_model_mutex,  \* the thread holding the mutex, or "free"
    heap,           \* handle id -> what is allocated there
    pc,             \* thread -> its position
    loc,            \* thread -> the locals of its call
    faults,         \* misuse of handles seen so far (double free, use after free)
    alive           \* FALSE once std::terminate has run

vars == <<g_state, g_model_mutex, heap, pc, loc, faults, alive>>

Handles == 1..NHandles
FreeCell == [kind |-> "free", stages |-> <<>>]

\* 2^SizeBits
RECURSIVE Pow2(_)
Pow2(n) == IF n = 0 THEN 1 ELSE 2 * Pow2(n - 1)
SizeMod == Pow2(SizeBits)

\* static_cast<size_t>(int)
ToSizeT(x) == x % SizeMod

g_state0 ==
    [ model |-> 0, ctx |-> 0, vocab |-> 0, sampler |-> 0,
      chat_template |-> "", grammar_text |-> "",
      temperature |-> 30, top_p |-> 90, max_tokens |-> 256, n_ctx |-> 4096 ]

\* a readiness test that never refuses
is_ready_Always(gs) == TRUE

is_ready(gs) == gs.model # 0 /\ gs.ctx # 0 /\ gs.vocab # 0

NoRet == [kind |-> "none", str |-> "", text |-> <<>>, flag |-> FALSE]

loc0 ==
    [ op |-> "none", model_path |-> "", grammar_path |-> "",
      user_query |-> <<>>, safe_query |-> <<>>, system_prompt |-> <<>>, prompt |-> <<>>,
      grammar_text |-> "", n_tokens |-> 0, buf_capacity |-> 0,
      response |-> <<>>, sampler |-> 0, i |-> 0, new_token |-> 0,
      pieces |-> <<>>, calls |-> <<>>, buf_size |-> 0, renders |-> 0,
      tokenizer_calls |-> 0, tokenizer_returns |-> <<>>, tokenizer_buffers |-> <<>>,
      entry |-> <<0, 0>>, exit |-> "",
      freed |-> <<>>,
      ret |-> NoRet ]

Init ==
    /\ g_state = g_state0
    /\ g_model_mutex = "free"
    /\ heap = [h \in Handles |-> FreeCell]
    /\ pc = [t \in Threads |-> "idle"]
    /\ loc = [t \in Threads |-> loc0]
    /\ faults = {}
    /\ alive = TRUE

-----------------------------------------------------------------------------
(* The native heap *)

\* pointers held by the program
Referenced(gs, lc) ==
    {gs.model, gs.ctx, gs.sampler} \cup {lc[t].sampler : t \in Threads}

\* the handle a constructor returns: a cell that is free and that no pointer
\* of the program still names; 0 (null) when there is none
NewHandle(hp, gs, lc) ==
    LET avail == {h \in Handles : hp[h].kind = "free" /\ h \notin Referenced(gs, lc)}
    IN  IF avail = {} THEN 0 ELSE CHOOSE h \in avail : \A k \in avail : h <= k

Alloc(hp, h, kind, stages) == [hp EXCEPT ![h] = [kind |-> kind, stages |-> stages]]

\* llama_sampler_free / llama_free / llama_model_free
Free(hp, h) == [hp EXCEPT ![h] = FreeCell]
FreeFault(hp, h) == IF hp[h].kind = "free" THEN {"double_free"} ELSE {}

\* a library call that dereferences handle h
UseFault(hp, h) == IF h = 0 \/ hp[h].kind = "free" THEN {"use_after_free"} ELSE {}

-----------------------------------------------------------------------------
(* ModelState::reset *)

\* a release that leaves the freed pointer in the field
ResetField_KeepPointer(r, field) ==
    IF r.gs[field] # 0
      THEN [ gs     |-> r.gs,
             heap   |-> Free(r.heap, r.gs[field]),
             log    |-> Append(r.log, field),
             faults |-> r.faults \cup FreeFault(r.heap, r.gs[field]) ]
      ELSE r

\* One "if (field) { free(field); field = nullptr; }" of reset: r is the
\* record [gs, heap, log, faults] threaded through the statements.
ResetField(r, field) ==
    IF r.gs[field] # 0
      THEN [ gs     |-> [r.gs EXCEPT ![field] = 0],
             heap   |-> Free(r.heap, r.gs[field]),
             log    |-> Append(r.log, field),
             faults |-> r.faults \cup FreeFault(r.heap, r.gs[field]) ]
      ELSE r

\* the order in which reset releases the owned handles
ResetOrder == <<"sampler", "ctx", "model">>

\* a reset that frees the handles and leaves the text fields as they are
reset_KeepsText(gs, hp) ==
    LET r0 == [gs |-> gs, heap |-> hp, log |-> <<>>, faults |-> {}]
        r1 == ResetField(r0, ResetOrder[1])
        r2 == ResetField(r1, ResetOrder[2])
        r3 == ResetField(r2, ResetOrder[3])
    IN  [r3 EXCEPT !.gs = [r3.gs EXCEPT !.vocab = 0]]

\* a reset that frees the sampler and forgets to null its pointer
reset_SamplerNotNulled(gs, hp) ==
    LET r0 == [gs |-> gs, heap |-> hp, log |-> <<>>, faults |-> {}]
        r1 == ResetField(r0, ResetOrder[1])
        r2 == ResetField(r1, ResetOrder[2])
        r3 == ResetField(r2, ResetOrder[3])
    IN  [r3 EXCEPT !.gs = [r3.gs EXCEPT !.sampler = gs.sampler,
                                        !.vocab = 0,
                                        !.chat_template = "",
                                        !.grammar_text = ""]]

reset(gs, hp) ==
    LET r0 == [gs |-> gs, heap |-> hp, log |-> <<>>, faults |-> {}]
        r1 == ResetField(r0, ResetOrder[1])
        r2 == ResetField(r1, ResetOrder[2])
        r3 == ResetField(r2, ResetOrder[3])
    IN  [r3 EXCEPT !.gs = [r3.gs EXCEPT !.vocab = 0,
                                        !.chat_template = "",
                                        !.grammar_text = ""]]

-----------------------------------------------------------------------------
(* std::lock_guard on g_model_mutex *)

\* a guard that does not wait for the mutex
MutexAvailable_Always == TRUE

\* the constructor returns once the mutex is free, and then holds it
MutexAvailable == g_model_mutex = "free"

lock_guard(t) ==
    /\ alive
    /\ pc[t] = "blocked"
    /\ MutexAvailable
    /\ g_model_mutex' = t

\* the thread is inside a JNI function, past its lock_guard
InCritical(t) == pc[t] \notin {"idle", "blocked", "terminated"}

\* a caller enters one of the JNI functions and reaches its lock_guard
Call(t) ==
    /\ alive
    /\ pc[t] = "idle"
    /\ pc' = [pc EXCEPT ![t] = "blocked"]
    /\ UNCHANGED <<g_state, g_model_mutex, heap, loc, faults, alive>>

\* the return statement: the value goes to the caller and the guard unlocks
Return(t) ==
    /\ alive
    /\ pc[t] = "ret"
    /\ g_model_mutex' = "free"
    /\ pc' = [pc EXCEPT ![t] = "idle"]
    /\ loc' = [loc EXCEPT ![t] = loc0]
    /\ UNCHANGED <<g_state, heap, faults, alive>>

BoolRet(b) == [NoRet EXCEPT !.kind = "bool", !.flag = b]
VoidRet == [NoRet EXCEPT !.kind = "void"]
JsonRet(s) == [NoRet EXCEPT !.kind = "json", !.str = s]
TextRet(x) == [NoRet EXCEPT !.kind = "text", !.text = x]

-----------------------------------------------------------------------------
(* initModel *)

\* lines 337-357: lock, reset, load the model
initModel_load(t) ==
    /\ lock_guard(t)
    /\ \E model_path \in DOMAIN ModelFiles, grammar_path \in DOMAIN GrammarFiles :
         LET r  == reset(g_state, heap)
             h  == IF ModelFiles[model_path].loads
                     THEN NewHandle(r.heap, r.gs, loc) ELSE 0
             lc == [loc0 EXCEPT !.op = "initModel", !.model_path = model_path,
                                !.grammar_path = grammar_path, !.freed = <<r.log>>]
         IN  /\ faults' = faults \cup r.faults
             /\ IF h = 0
                  THEN /\ g_state' = r.gs
                       /\ heap' = r.heap
                       /\ loc' = [loc EXCEPT ![t] = [lc EXCEPT !.ret = BoolRet(FALSE),
                                                               !.exit = "load"]]
                       /\ pc' = [pc EXCEPT ![t] = "ret"]
                  ELSE /\ g_state' = [r.gs EXCEPT !.model = h]
                       /\ heap' = Alloc(r.heap, h, "model", <<>>)
                       /\ loc' = [loc EXCEPT ![t] = lc]
                       /\ pc' = [pc EXCEPT ![t] = "init_vocab"]
    /\ UNCHANGED alive

\* a failed step that returns without unwinding
InitFailure_NoUnwind(gs, hp) == [gs |-> gs, heap |-> hp, log |-> <<>>, faults |-> {}]

\* the unwinding of a failed step (lines 363 and 400)
InitFailure(gs, hp) == reset(gs, hp)

\* lines 359-389: derive the vocabulary, read the grammar file, take the
\* model's chat template
initModel_vocab(t) ==
    /\ alive
    /\ pc[t] = "init_vocab"
    /\ \E vocab_ok \in BOOLEAN :
         IF ~vocab_ok
           THEN LET r == InitFailure(g_state, heap)
                IN  /\ g_state' = r.gs
                    /\ heap' = r.heap
                    /\ faults' = faults \cup UseFault(heap, g_state.model) \cup r.faults
                    /\ loc' = [loc EXCEPT ![t].ret = BoolRet(FALSE), ![t].exit = "vocab",
                                          ![t].freed = Append(@, r.log)]
                    /\ pc' = [pc EXCEPT ![t] = "ret"]
           ELSE LET gf   == GrammarFiles[loc[t].grammar_path]
                    gs1  == [g_state EXCEPT !.vocab = g_state.model]
                    gs2  == IF loc[t].grammar_path # "" /\ gf.opens
                              THEN [gs1 EXCEPT !.grammar_text = gf.text] ELSE gs1
                    tmpl == ModelFiles[loc[t].model_path].template
                    gs3  == IF tmpl # "" THEN [gs2 EXCEPT !.chat_template = tmpl] ELSE gs2
                IN  /\ g_state' = gs3
                    /\ faults' = faults \cup UseFault(heap, g_state.model)
                    /\ pc' = [pc EXCEPT ![t] = "init_ctx"]
                    /\ UNCHANGED <<heap, loc>>
    /\ UNCHANGED <<g_model_mutex, alive>>

\* lines 391-402: create the context
initModel_ctx(t) ==
    /\ alive
    /\ pc[t] = "init_ctx"
    /\ \E ctx_ok \in BOOLEAN :
         LET h == IF ctx_ok THEN NewHandle(heap, g_state, loc) ELSE 0
         IN  IF h = 0
               THEN LET r == InitFailure(g_state, heap)
                    IN  /\ g_state' = r.gs
                        /\ heap' = r.heap
                        /\ faults' = faults \cup UseFault(heap, g_state.model) \cup r.faults
                        /\ loc' = [loc EXCEPT ![t].ret = BoolRet(FALSE), ![t].exit = "ctx",
                                              ![t].freed = Append(@, r.log)]
                        /\ pc' = [pc EXCEPT ![t] = "ret"]
               ELSE /\ g_state' = [g_state EXCEPT !.ctx = h]
                    /\ heap' = Alloc(heap, h, "ctx", <<>>)
                    /\ faults' = faults \cup UseFault(heap, g_state.model)
                    /\ pc' = [pc EXCEPT ![t] = "init_sampler"]
                    /\ UNCHANGED loc
    /\ UNCHANGED <<g_model_mutex, alive>>

\* a chain whose draw is added before the grammar stage
ChainStages_DrawBeforeGrammar(gs, grammar_text) ==
    <<  <<"temp", gs.temperature>>, <<"top_p", gs.top_p, 1>>, <<"dist", 42>> >>
    \o (IF grammar_text # "" /\ GrammarCompiles(grammar_text)
          THEN << <<"grammar", "root">> >> ELSE <<>>)

\* a chain given a grammar stage without looking at the grammar text
ChainStages_AlwaysGrammar(gs, grammar_text) ==
    <<  <<"temp", gs.temperature>>, <<"top_p", gs.top_p, 1>>,
        <<"grammar", "root">>, <<"dist", 42>> >>

\* the stages of a sampler chain: temperature, top-p keeping at least one
\* candidate, the grammar when its text is non-empty and compiles, and the
\* seeded draw (native_inference.cpp lines 17-33, native-lib.cpp lines 411-431)
ChainStages(gs, grammar_text) ==
    <<  <<"temp", gs.temperature>>, <<"top_p", gs.top_p, 1>> >>
    \o (IF grammar_text # "" /\ GrammarCompiles(grammar_text)
          THEN << <<"grammar", "root">> >> ELSE <<>>)
    \o << <<"dist", 42>> >>

\* lines 406-434: build the default sampler chain
initModel_sampler(t) ==
    /\ alive
    /\ pc[t] = "init_sampler"
    /\ LET h == NewHandle(heap, g_state, loc)
       IN  /\ g_state' = [g_state EXCEPT !.sampler = h]
           /\ heap' = IF h = 0 THEN heap
                      ELSE Alloc(heap, h, "sampler",
                                 ChainStages(g_state, g_state.grammar_text))
    /\ loc' = [loc EXCEPT ![t].ret = BoolRet(TRUE), ![t].exit = "ok"]
    /\ pc' = [pc EXCEPT ![t] = "ret"]
    /\ UNCHANGED <<g_model_mutex, faults, alive>>

-----------------------------------------------------------------------------
(* releaseModel, isModelReady, getModelInfo, setInferenceParams *)

releaseModel(t) ==
    /\ lock_guard(t)
    /\ LET r == reset(g_state, heap)
       IN  /\ g_state' = r.gs
           /\ heap' = r.heap
           /\ faults' = faults \cup r.faults
           /\ loc' = [loc EXCEPT ![t] = [loc0 EXCEPT !.op = "releaseModel",
                                          !.ret = VoidRet, !.freed = <<r.log>>]]
    /\ pc' = [pc EXCEPT ![t] = "ret"]
    /\ UNCHANGED alive

isModelReady(t) ==
    /\ lock_guard(t)
    /\ loc' = [loc EXCEPT ![t] = [loc0 EXCEPT !.op = "isModelReady",
                                              !.ret = BoolRet(is_ready(g_state))]]
    /\ pc' = [pc EXCEPT ![t] = "ret"]
    /\ UNCHANGED <<g_state, heap, faults, alive>>

\* std::format(R"({{"loaded":true,"n_vocab":{},"n_ctx_train":{},"n_ctx":{}}})", ...)
\* with the vocabulary size and training context the library reports
ModelInfoJson(gs) ==
    "{\"loaded\":true,\"n_vocab\":" \o ToString(32000)
    \o ",\"n_ctx_train\":" \o ToString(8192)
    \o ",\"n_ctx\":" \o ToString(gs.n_ctx) \o "}"

NotLoadedInfoJson == "{\"loaded\":false}"

getModelInfo(t) ==
    /\ lock_guard(t)
    /\ IF g_state.model = 0 \/ g_state.vocab = 0
         THEN /\ loc' = [loc EXCEPT ![t] = [loc0 EXCEPT !.op = "getModelInfo",
                                                      !.ret = JsonRet(NotLoadedInfoJson)]]
              /\ UNCHANGED faults
         ELSE /\ loc' = [loc EXCEPT ![t] = [loc0 EXCEPT !.op = "getModelInfo",
                                                      !.ret = JsonRet(ModelInfoJson(g_state))]]
              /\ faults' = faults \cup UseFault(heap, g_state.model)
    /\ pc' = [pc EXCEPT ![t] = "ret"]
    /\ UNCHANGED <<g_state, heap, alive>>

setInferenceParams(t) ==
    /\ lock_guard(t)
    /\ \E p \in ParamChoices :
         g_state' = [g_state EXCEPT !.temperature = p[1], !.top_p = p[2],
                                    !.max_tokens = p[3]]
    /\ loc' = [loc EXCEPT ![t] = [loc0 EXCEPT !.op = "setInferenceParams",
                                              !.ret = VoidRet]]
    /\ pc' = [pc EXCEPT ![t] = "ret"]
    /\ UNCHANGED <<heap, faults, alive>>

-----------------------------------------------------------------------------
(* apply_chat_template (native_utils.cpp) *)

NewlineNewline == <<10, 10>>

\* what llama_chat_apply_template writes for the messages: the library's own
\* formatting, here a marker byte for the template used (1: the built-in
\* default taken for a null template, 2: the model's template), then each
\* message behind a role byte, then the assistant marker
Rendered(tmpl, system_prompt, user_message) ==
    << IF tmpl = "" THEN 1 ELSE 2 >>
    \o (IF system_prompt # <<>> THEN <<3>> \o system_prompt ELSE <<>>)
    \o <<4>> \o user_message \o <<5>>

\* values the sizing pass can report for a rendering of `need` bytes: an
\* error, nothing, the exact size, an over-estimate
SizingResults(need) == {-1, 0, need, need + 2}

\* buf_size is the value the sizing pass returned; the result is the prompt
\* and the number of renderer invocations
\* the simple format without the system prompt
apply_chat_template_DropsSystemPrompt(gs, system_prompt, user_message, buf_size) ==
    IF buf_size <= 0
      THEN [ prompt |-> user_message, renders |-> 1 ]
      ELSE LET text == Rendered(gs.chat_template, system_prompt, user_message)
           IN  [ prompt |-> SubSeq(text, 1, Min(Len(text), buf_size + 1)),
                 renders |-> 2 ]

\* the simple format taken whenever the model has no template, the renderer
\* never asked to write
apply_chat_template_SimpleWithoutTemplate(gs, system_prompt, user_message, buf_size) ==
    IF buf_size <= 0 \/ gs.chat_template = ""
      THEN [ prompt |-> IF system_prompt = <<>> THEN user_message
                        ELSE system_prompt \o NewlineNewline \o user_message,
             renders |-> 1 ]
      ELSE LET text == Rendered(gs.chat_template, system_prompt, user_message)
           IN  [ prompt |-> SubSeq(text, 1, Min(Len(text), buf_size + 1)),
                 renders |-> 2 ]

apply_chat_template(gs, system_prompt, user_message, buf_size) ==
    IF buf_size <= 0
      THEN [ prompt |-> IF system_prompt = <<>> THEN user_message
                        ELSE system_prompt \o NewlineNewline \o user_message,
             renders |-> 1 ]
      ELSE LET text == Rendered(gs.chat_template, system_prompt, user_message)
           IN  \* the buffer holds buf_size + 1 zero bytes; strlen trims it
               [ prompt |-> SubSeq(text, 1, Min(Len(text), buf_size + 1)),
                 renders |-> 2 ]

-----------------------------------------------------------------------------
(* infer and inferWithGrammar: up to the composed prompt *)

NotLoadedJson == "{\"action\":\"NONE\",\"reasoning\":\"Model not loaded\"}"
BlockedJson == "{\"action\":\"none\",\"reasoning\":\"blocked\"}"
\* std::format(R"({{"action":"NONE","reasoning":"{}"}})", error)
ErrorJson(error) == "{\"action\":\"NONE\",\"reasoning\":\"" \o error \o "\"}"

\* capacities given to sanitize
QueryMaxLen == 2048
ContextMaxLen == 32000

\* the instruction block of infer around the screen context (the literal of
\* lines 470-482, shortened to its first and last words)
SystemPromptHead == Str(<<"Y","o","u"," ","a","r","e","\n">>)
SystemPromptTail == Str(<<"\n","J","S","O","N">>)

\* the injection check on the raw user query (lines 461 and 527)
InjectionCheck(user_query) == contains_injection(user_query)

\* lines 447-467 (infer) and 513-534 (inferWithGrammar): the readiness gate,
\* the injection check, sanitization and the system prompt
InferEnter(t, op, grammar_path) ==
    /\ lock_guard(t)
    /\ IF ~is_ready(g_state)
         THEN /\ loc' = [loc EXCEPT ![t] = [loc0 EXCEPT !.op = op,
                                  !.exit = "not_ready",
                                  !.ret = JsonRet(NotLoadedJson)]]
              /\ pc' = [pc EXCEPT ![t] = "ret"]
         ELSE \E user_query \in UserQueries, screen_context \in ScreenContexts :
                IF InjectionCheck(user_query)
                  THEN /\ loc' = [loc EXCEPT ![t] = [loc0 EXCEPT !.op = op,
                                      !.entry = <<g_state.model, g_state.ctx>>,
                                      !.user_query = user_query,
                                      !.exit = "blocked",
                                      !.ret = JsonRet(BlockedJson)]]
                       /\ pc' = [pc EXCEPT ![t] = "ret"]
                  ELSE LET safe_query   == sanitize(user_query, QueryMaxLen)
                           safe_context == sanitize(screen_context, ContextMaxLen)
                       IN  /\ loc' = [loc EXCEPT ![t] = [loc0 EXCEPT !.op = op,
                                      !.entry = <<g_state.model, g_state.ctx>>,
                                      !.user_query = user_query,
                                      !.safe_query = safe_query,
                                      !.grammar_path = grammar_path,
                                      !.system_prompt =
                                          IF op = "infer"
                                            THEN SystemPromptHead \o safe_context
                                                 \o SystemPromptTail
                                            ELSE safe_context]]
                           /\ pc' = [pc EXCEPT ![t] = "template"]
    /\ UNCHANGED <<g_state, heap, faults, alive>>

infer(t) == InferEnter(t, "infer", "")

inferWithGrammar(t) ==
    \E grammar_path \in DOMAIN GrammarFiles : InferEnter(t, "inferWithGrammar", grammar_path)

\* lines 485-490 (infer) and 536-550 (inferWithGrammar): compose the prompt
\* and pick the grammar text handed to run_inference
compose_prompt(t) ==
    /\ alive
    /\ pc[t] = "template"
    /\ \E buf_size \in SizingResults(Len(Rendered(g_state.chat_template,
                                      loc[t].system_prompt, loc[t].safe_query))) :
         LET r  == apply_chat_template(g_state, loc[t].system_prompt,
                                       loc[t].safe_query, buf_size)
             gf == GrammarFiles[loc[t].grammar_path]
             grammar_text ==
                 IF loc[t].op = "infer" THEN g_state.grammar_text
                 ELSE IF loc[t].grammar_path # "" /\ gf.opens THEN gf.text ELSE ""
         IN  loc' = [loc EXCEPT ![t].prompt = r.prompt,
                                ![t].grammar_text = grammar_text,
                                ![t].buf_size = buf_size,
                                ![t].renders = r.renders,
                                ![t].calls = <<"llama_chat_apply_template">>]
    /\ pc' = [pc EXCEPT ![t] = "run_inference"]
    /\ UNCHANGED <<g_state, g_model_mutex, heap, faults, alive>>

-----------------------------------------------------------------------------
(* tokenize (native_utils.cpp) *)

\* tokenize without the final resize: the vector keeps the size of the
\* buffer handed to the last call
tokenize_NotResized(text_length, first, retry) ==
    [ size    |-> IF first < 0 THEN -first ELSE text_length + 64,
      calls   |-> IF first < 0 THEN 2 ELSE 1,
      returns |-> IF first < 0 THEN <<first, retry>> ELSE <<first>>,
      buffers |-> IF first < 0 THEN <<text_length + 64, -first>>
                  ELSE <<text_length + 64>> ]

\* first and retry are the values the two llama_tokenize calls return (the
\* second is made only when the first is negative); the result is the
\* length of the vector returned, the number of tokenizer calls, the values
\* they returned and the buffer sizes they were given
tokenize(text_length, first, retry) ==
    LET n_tokens == IF first < 0 THEN retry ELSE first
    IN  [ size    |-> Max(0, n_tokens),
          calls   |-> IF first < 0 THEN 2 ELSE 1,
          returns |-> IF first < 0 THEN <<first, retry>> ELSE <<first>>,
          buffers |-> IF first < 0 THEN <<text_length + 64, -first>>
                      ELSE <<text_length + 64>> ]

-----------------------------------------------------------------------------
(* run_inference (native_inference.cpp) *)

\* line 49: tokens.size() > static_cast<size_t>(n_ctx - max_tokens)
BudgetExceeded(size, gs) == size > ToSizeT(gs.n_ctx - gs.max_tokens)

\* line 64: static_cast<size_t>(max_tokens) * 8 + 1
BufCapacity(gs) == (ToSizeT(gs.max_tokens) * 8 + 1) % SizeMod

\* new char[n] throws std::bad_alloc for a size beyond half the address space
NewThrows(n) == n > SizeMod \div 2

\* the JNI function's return for a failed InferenceResult (lines 495-498)
Fail(lc, error, exit) ==
    [lc EXCEPT !.ret = JsonRet(ErrorJson(error)), !.exit = exit]

\* lines 38-51: readiness, tokenization, budget check
ri_tokenize(t) ==
    /\ alive
    /\ pc[t] = "run_inference"
    /\ IF ~is_ready(g_state)
         THEN /\ loc' = [loc EXCEPT ![t] = Fail(loc[t], "Model not loaded", "not_ready")]
              /\ pc' = [pc EXCEPT ![t] = "ret"]
         ELSE \E first \in TokenizeFirst :
              \E retry \in IF first < 0 THEN TokenizeRetry(first) ELSE {0} :
                LET tk == tokenize(Len(loc[t].prompt), first, retry)
                    lc == [loc[t] EXCEPT
                             !.calls = @ \o <<"llama_tokenize">>,
                             !.tokenizer_calls = tk.calls,
                             !.tokenizer_returns = tk.returns,
                             !.tokenizer_buffers = tk.buffers,
                             !.buf_size = 0, !.renders = 0,
                             !.n_tokens = tk.size,
                             !.user_query = <<>>, !.safe_query = <<>>,
                             !.system_prompt = <<>>, !.prompt = <<>>,
                             !.grammar_path = ""]
                IN  IF tk.size = 0
                      THEN /\ loc' = [loc EXCEPT ![t] =
                                        Fail(lc, "Failed to tokenize prompt", "tokenize")]
                           /\ pc' = [pc EXCEPT ![t] = "ret"]
                    ELSE IF BudgetExceeded(tk.size, g_state)
                      THEN /\ loc' = [loc EXCEPT ![t] =
                                        Fail(lc, "Prompt too long for context window",
                                             "overflow")]
                           /\ pc' = [pc EXCEPT ![t] = "ret"]
                    ELSE /\ loc' = [loc EXCEPT ![t] = lc]
                         /\ pc' = [pc EXCEPT ![t] = "ri_prime"]
    /\ UNCHANGED <<g_state, g_model_mutex, heap, faults, alive>>

\* a priming decode into a session whose memory was not cleared
PrimeCalls_NoClear == <<"llama_decode">>

\* lines 53-58: llama_memory_clear(mem, true), then llama_decode of the
\* prompt batch
PrimeCalls == <<"llama_memory_clear", "llama_decode">>

\* lines 53-62: clear the session's memory and decode the prompt
ri_prime(t) ==
    /\ alive
    /\ pc[t] = "ri_prime"
    /\ faults' = faults \cup UseFault(heap, g_state.ctx)
    /\ \E decode_ok \in BOOLEAN :
         LET lc == [loc[t] EXCEPT !.calls = @ \o PrimeCalls,
                                  !.tokenizer_calls = 0,
                                  !.tokenizer_returns = <<>>,
                                  !.tokenizer_buffers = <<>>]
         IN  IF decode_ok
               THEN /\ loc' = [loc EXCEPT ![t] = lc]
                    /\ pc' = [pc EXCEPT ![t] = "ri_setup"]
               ELSE /\ loc' = [loc EXCEPT ![t] =
                                 Fail(lc, "Failed to process prompt", "prime")]
                    /\ pc' = [pc EXCEPT ![t] = "ret"]
    /\ UNCHANGED <<g_state, g_model_mutex, heap, alive>>

\* a create_sampler that hands out the default chain of initModel
create_sampler_ReusesDefault(hp, gs, lc, grammar_text) ==
    [ sampler |-> gs.sampler, heap |-> hp ]

\* create_sampler: the chain's handle (0 when llama_sampler_chain_init
\* returns null) and the heap holding it
create_sampler(hp, gs, lc, grammar_text) ==
    LET h == NewHandle(hp, gs, lc)
    IN  [ sampler |-> h,
          heap |-> IF h = 0 THEN hp
                   ELSE Alloc(hp, h, "sampler", ChainStages(gs, grammar_text)) ]

\* lines 64-71: the response buffer and the sampler chain of this call
ri_setup(t) ==
    /\ pc[t] = "ri_setup"
    /\ alive
    /\ LET cap == BufCapacity(g_state)
       IN  IF NewThrows(cap)
             THEN \* std::bad_alloc leaves run_inference and the JNI function
                  \* uncaught: std::terminate
                  /\ alive' = FALSE
                  /\ pc' = [pc EXCEPT ![t] = "terminated"]
                  /\ loc' = [loc EXCEPT ![t].buf_capacity = cap,
                                        ![t].exit = "bad_alloc",
                                        ![t].ret = [NoRet EXCEPT !.kind = "exception"]]
                  /\ UNCHANGED heap
             ELSE LET cs == create_sampler(heap, g_state, loc, loc[t].grammar_text)
                      lc == [loc[t] EXCEPT !.buf_capacity = cap,
                                           !.sampler = cs.sampler,
                                           !.calls = @ \o <<"create_sampler">>]
                  IN  /\ heap' = cs.heap
                      /\ alive' = alive
                      /\ IF cs.sampler = 0
                           THEN /\ loc' = [loc EXCEPT ![t] =
                                      Fail(lc, "Failed to create sampler", "sampler")]
                                /\ pc' = [pc EXCEPT ![t] = "ret"]
                           ELSE /\ loc' = [loc EXCEPT ![t] = lc]
                                /\ pc' = [pc EXCEPT ![t] = "ri_loop"]
    /\ UNCHANGED <<g_state, g_model_mutex, faults>>


\* an append that copies the whole piece whatever room is left
AppendPiece_Unbounded(response, buf_capacity, tok) ==
    IF PieceOf(tok).n > 0 THEN response \o PieceOf(tok).bytes ELSE response

\* lines 88-96: append the piece of new_token to the response buffer
AppendPiece(response, buf_capacity, tok) ==
    LET n == PieceOf(tok).n
    IN  IF n > 0
          THEN LET copy_len == Min(n, buf_capacity - Len(response) - 1)
               IN  IF copy_len > 0
                     THEN response \o SubSeq(PieceOf(tok).bytes, 1, copy_len)
                     ELSE response
          ELSE response

\* the per-call chain is released: llama_sampler_free(sampler)
ReleaseSampler(hp, sampler) == Free(hp, sampler)

\* a catch block that returns without releasing the chain
ThrowRelease_Leak(hp, sampler) == hp

\* the catch blocks release the chain before they return (lines 79 and 102)
ThrowRelease(hp, sampler) == Free(hp, sampler)

\* a loop exit that turns a decode failure into an error and drops the text
Finish_DropOnDecodeFailure(lc, exit) ==
    IF exit = "decode"
      THEN [lc EXCEPT !.calls = @ \o <<"llama_sampler_free">>,
                      !.exit = exit,
                      !.ret = JsonRet(ErrorJson("Decode failed"))]
      ELSE [lc EXCEPT !.calls = @ \o <<"llama_sampler_free">>,
                      !.exit = exit,
                      !.ret = TextRet(lc.response)]

\* lines 114-118: terminate the buffer, free the sampler, return the text
Finish(lc, exit) ==
    [lc EXCEPT !.calls = @ \o <<"llama_sampler_free">>,
               !.exit = exit,
               !.ret = TextRet(lc.response)]

\* lines 77-81 and 100-104: a sampler exception frees the chain and fails
SamplerError(lc, exit) ==
    Fail([lc EXCEPT !.calls = @ \o <<"llama_sampler_free">>],
         "Sampler error: what", exit)

\* tokens the sampler may draw at step i
Drawn(i) == IF i < MaxGen THEN Tokens ELSE {EOG}

\* a loop without the end-of-generation test
BreaksOnEog_Never(new_token) == FALSE

\* lines 83-86: if (llama_vocab_is_eog(vocab, new_token)) break;
BreaksOnEog(new_token) == new_token = EOG

\* lines 73-104: the loop test, sample, end-of-generation test, append, accept
ri_sample(t) ==
    /\ alive
    /\ pc[t] = "ri_loop"
    /\ IF ~(loc[t].i < g_state.max_tokens)
         THEN /\ loc' = [loc EXCEPT ![t] = Finish(loc[t], "budget")]
              /\ heap' = ReleaseSampler(heap, loc[t].sampler)
              /\ faults' = faults \cup FreeFault(heap, loc[t].sampler)
              /\ pc' = [pc EXCEPT ![t] = "ret"]
         ELSE LET lc0 == [loc[t] EXCEPT !.calls = @ \o <<"llama_sampler_sample">>]
                  use == UseFault(heap, loc[t].sampler) \cup UseFault(heap, g_state.ctx)
              IN  \/ \* llama_sampler_sample throws
                     /\ loc' = [loc EXCEPT ![t] = SamplerError(lc0, "sample_throw")]
                     /\ heap' = ThrowRelease(heap, loc[t].sampler)
                     /\ faults' = faults \cup use \cup FreeFault(heap, loc[t].sampler)
                     /\ pc' = [pc EXCEPT ![t] = "ret"]
                  \/ \E new_token \in Drawn(loc[t].i) :
                       IF BreaksOnEog(new_token)
                         THEN /\ loc' = [loc EXCEPT ![t] =
                                    Finish([lc0 EXCEPT !.new_token = new_token], "eog")]
                              /\ heap' = ReleaseSampler(heap, loc[t].sampler)
                              /\ faults' = faults \cup use
                                             \cup FreeFault(heap, loc[t].sampler)
                              /\ pc' = [pc EXCEPT ![t] = "ret"]
                         ELSE LET lc1 == [lc0 EXCEPT
                                      !.new_token = new_token,
                                      !.response = AppendPiece(@, lc0.buf_capacity,
                                                               new_token),
                                      !.pieces = @ \o PieceOf(new_token).bytes,
                                      !.calls = @ \o <<"llama_sampler_accept">>]
                              IN  \/ \* llama_sampler_accept throws
                                     /\ loc' = [loc EXCEPT ![t] =
                                                  SamplerError(lc1, "accept_throw")]
                                     /\ heap' = ThrowRelease(heap, loc[t].sampler)
                                     /\ faults' = faults \cup use
                                                    \cup FreeFault(heap, loc[t].sampler)
                                     /\ pc' = [pc EXCEPT ![t] = "ret"]
                                  \/ /\ loc' = [loc EXCEPT ![t] = lc1]
                                     /\ heap' = heap
                                     /\ faults' = faults \cup use
                                     /\ pc' = [pc EXCEPT ![t] = "ri_decode"]
    /\ UNCHANGED <<g_state, g_model_mutex, alive>>

\* lines 106-111: decode the new token; a failure leaves the loop
ri_decode(t) ==
    /\ alive
    /\ pc[t] = "ri_decode"
    /\ \E decode_ok \in BOOLEAN :
         LET lc == [loc[t] EXCEPT !.calls = @ \o <<"llama_decode">>]
         IN  IF decode_ok
               THEN /\ loc' = [loc EXCEPT ![t] = [lc EXCEPT !.i = @ + 1]]
                    /\ heap' = heap
                    /\ faults' = faults \cup UseFault(heap, g_state.ctx)
                    /\ pc' = [pc EXCEPT ![t] = "ri_loop"]
               ELSE /\ loc' = [loc EXCEPT ![t] = Finish(lc, "decode")]
                    /\ heap' = ReleaseSampler(heap, loc[t].sampler)
                    /\ faults' = faults \cup UseFault(heap, g_state.ctx)
                                   \cup FreeFault(heap, loc[t].sampler)
                    /\ pc' = [pc EXCEPT ![t] = "ret"]
    /\ UNCHANGED <<g_state, g_model_mutex, alive>>

-----------------------------------------------------------------------------
(* The system *)

Next ==
    \E t \in Threads :
        \/ Call(t)
        \/ initModel_load(t)
        \/ initModel_vocab(t)
        \/ initModel_ctx(t)
        \/ initModel_sampler(t)
        \/ releaseModel(t)
        \/ isModelReady(t)
        \/ getModelInfo(t)
        \/ setInferenceParams(t)
        \/ infer(t)
        \/ inferWithGrammar(t)
        \/ compose_prompt(t)
        \/ ri_tokenize(t)
        \/ ri_prime(t)
        \/ ri_setup(t)
        \/ ri_sample(t)
        \/ ri_decode(t)
        \/ Return(t)

Spec == Init /\ [][Next]_vars

-----------------------------------------------------------------------------
(* Properties *)

AllNull(gs) == gs.model = 0 /\ gs.ctx = 0 /\ gs.vocab = 0
AllNonNull(gs) == gs.model # 0 /\ gs.ctx # 0 /\ gs.vocab # 0
InferOps == {"infer", "inferWithGrammar"}

\* C1: whenever the state lock is free, model, session and vocabulary are
\* all null or all non-null (never a model without a session), and
\* isModelReady returns true exactly when they are all non-null.
C1_ReadyIffAllHandles ==
    /\ g_model_mutex = "free" => AllNull(g_state) \/ AllNonNull(g_state)
    /\ \A t \in Threads :
         pc[t] = "ret" /\ loc[t].op = "isModelReady" =>
            /\ AllNull(g_state) \/ AllNonNull(g_state)
            /\ loc[t].ret.kind = "bool"
            /\ loc[t].ret.flag <=> AllNonNull(g_state)

\* isModelReady answers true on a loaded model
C1_Witness ==
    \E t \in Threads :
        pc[t] = "ret" /\ loc[t].op = "isModelReady" /\ loc[t].ret.flag

\* C2: while model, session or vocabulary is null, infer and
\* inferWithGrammar return exactly the "Model not loaded" payload and call
\* neither the chat template, the tokenizer, the sampler, the session clear
\* nor decode.
C2_NotReadyGate ==
    \A t \in Threads :
        loc[t].op \in InferOps /\ ~AllNonNull(g_state) =>
            /\ pc[t] = "ret"
            /\ loc[t].ret.kind = "json"
            /\ loc[t].ret.str = "{\"action\":\"NONE\",\"reasoning\":\"Model not loaded\"}"
            /\ loc[t].calls = <<>>
            /\ loc[t].sampler = 0

\* an inference call is refused on a state that is not ready
C2_Witness ==
    \E t \in Threads :
        pc[t] = "ret" /\ loc[t].op = "inferWithGrammar" /\ AllNull(g_state)
            /\ loc[t].exit = "not_ready"

\* C3: at most one thread is inside a critical section, it is the holder of
\* the mutex, and the model and session a running inference call started
\* with stay allocated and in place until it returns.
C3_MutualExclusion ==
    /\ Cardinality({t \in Threads : InCritical(t)}) <= 1
    /\ \A t \in Threads : InCritical(t) => g_model_mutex = t
    /\ \A t \in Threads :
         loc[t].op \in InferOps /\ pc[t] \notin {"ret", "idle", "blocked"}
            /\ loc[t].exit # "not_ready" =>
            /\ loc[t].entry = <<g_state.model, g_state.ctx>>
            /\ heap[g_state.model].kind = "model"
            /\ heap[g_state.ctx].kind = "ctx"
    /\ "use_after_free" \notin faults

\* a generation is in flight while the other thread waits for the mutex
C3_Witness ==
    \E t, u \in Threads :
        /\ pc[t] = "ri_decode" /\ loc[t].i = 1
        /\ pc[u] = "blocked"

\* C4: a prompt whose token count exceeds contextWindow - maxTokens,
\* computed over the integers, ends in the "Prompt too long for context
\* window" failure without any decode call, whatever maxTokens was stored.
C4_BudgetOverIntegers ==
    \A t \in Threads :
        /\ loc[t].op \in InferOps
        /\ loc[t].n_tokens > 0
        /\ loc[t].n_tokens > g_state.n_ctx - g_state.max_tokens
        => /\ loc[t].exit = "overflow"
           /\ \A k \in 1..Len(loc[t].calls) : loc[t].calls[k] # "llama_decode"

\* C5: when initModel returns false, whichever step failed and whatever was
\* loaded before, every handle of ModelState is null, chat template and
\* grammar text are empty and the state is not ready.
C5_FailedInitFullyReset ==
    \A t \in Threads :
        pc[t] = "ret" /\ loc[t].op = "initModel" /\ ~loc[t].ret.flag =>
            /\ g_state.model = 0 /\ g_state.ctx = 0 /\ g_state.vocab = 0
            /\ g_state.sampler = 0
            /\ g_state.chat_template = "" /\ g_state.grammar_text = ""
            /\ \A h \in Handles : heap[h].kind = "free"

\* initModel over a loaded model fails at session creation, after a grammar
\* file and a chat template were taken
C5_Witness ==
    \E t \in Threads :
        /\ pc[t] = "ret" /\ loc[t].op = "initModel" /\ ~loc[t].ret.flag
        /\ loc[t].exit = "ctx"
        /\ loc[t].freed[1] = <<"sampler", "ctx", "model">>
        /\ loc[t].grammar_path = "action.gbnf"
        /\ loc[t].model_path = "model.gguf"

CountOf(seq, x) == Cardinality({k \in 1..Len(seq) : seq[k] = x})

C7_ResponseWithinCapacity ==
    \A t \in Threads :
        pc[t] \in {"ri_loop", "ri_decode"} \/ (pc[t] = "ret" /\ loc[t].sampler # 0) =>
            /\ Len(loc[t].response) <= g_state.max_tokens * 8
            /\ Len(loc[t].response) <= loc[t].buf_capacity - 1
            /\ loc[t].buf_capacity = g_state.max_tokens * 8 + 1
            /\ IsPrefix(loc[t].response, loc[t].pieces)
            /\ loc[t].ret.kind = "text" => IsPrefix(loc[t].ret.text, loc[t].pieces)

\* the buffer is full, a piece was cut and a later piece found no room
C7_Witness ==
    \E t \in Threads :
        /\ pc[t] = "ret" /\ loc[t].ret.kind = "text"
        /\ g_state.max_tokens = 2
        /\ Len(loc[t].ret.text) = 16
        /\ Len(loc[t].pieces) = 34

\* C8: when the decode of a generated token fails at step i, the call
\* returns as a success the text of the tokens sampled at steps 0..i (cut
\* to the buffer), not an error payload.
C8_DecodeFailureKeepsText ==
    \A t \in Threads :
        pc[t] = "ret" /\ loc[t].exit = "decode" =>
            /\ loc[t].ret.kind = "text"
            /\ loc[t].ret.text =
                 SubSeq(loc[t].pieces, 1,
                        Min(Len(loc[t].pieces), g_state.max_tokens * 8))
            /\ CountOf(loc[t].calls, "llama_sampler_sample") = loc[t].i + 1
            /\ CountOf(loc[t].calls, "llama_sampler_accept") = loc[t].i + 1

\* the decode of the second generated token fails with text accumulated
C8_Witness ==
    \E t \in Threads :
        /\ pc[t] = "ret" /\ loc[t].exit = "decode" /\ loc[t].i = 1
        /\ Len(loc[t].ret.text) = 4

\* C9: on a ready model, a user query that contains a phrase of the
\* denylist is answered with the blocked payload, and no chat template,
\* tokenizer, sampler, session clear or decode call is made for it.
C9_DenylistedQueryBlocked ==
    \A t \in Threads :
        /\ loc[t].op \in InferOps
        /\ AllNonNull(g_state)
        /\ \E k \in 1..Len(INJECTION_PATTERNS) :
              Contains(loc[t].user_query, INJECTION_PATTERNS[k])
        => /\ pc[t] = "ret"
           /\ loc[t].ret.str = "{\"action\":\"none\",\"reasoning\":\"blocked\"}"
           /\ loc[t].calls = <<>>

LiveOf(kind) == {h \in Handles : heap[h].kind = kind}

\* does seq hold distinct elements of order, in the order of order
InOrder(seq, order) ==
    \E f \in [1..Len(seq) -> 1..Len(order)] :
        /\ \A k \in 1..Len(seq) : order[f[k]] = seq[k]
        /\ \A j, k \in 1..Len(seq) : j < k => f[j] < f[k]

\* C10: the live handles are exactly the ones ModelState (and a running
\* call's sampler) points to: at most one model, one session, one default
\* sampler; nothing is freed twice or used after being freed; after
\* releaseModel nothing is live; every teardown frees sampler, session,
\* model in that order and never the vocabulary.
C10_HandleLifetimes ==
    /\ LiveOf("model") = {g_state.model} \ {0}
    /\ LiveOf("ctx") = {g_state.ctx} \ {0}
    /\ LiveOf("sampler") \ {loc[t].sampler : t \in Threads} = {g_state.sampler} \ {0}
    /\ g_state.vocab \in {0, g_state.model}
    /\ faults = {}
    /\ \A t \in Threads :
         /\ pc[t] = "ret" /\ loc[t].op = "releaseModel" =>
              \A h \in Handles : heap[h].kind = "free"
         /\ \A k \in 1..Len(loc[t].freed) :
              InOrder(loc[t].freed[k], <<"sampler", "ctx", "model">>)
         /\ loc[t].op = "initModel" /\ pc[t] # "ret" =>
              Cardinality(LiveOf("model") \cup LiveOf("ctx") \cup LiveOf("sampler")) <= 2

\* initModel succeeds over a loaded model whose three handles it freed first
C10_Witness ==
    \E t \in Threads :
        /\ pc[t] = "ret" /\ loc[t].op = "initModel" /\ loc[t].ret.flag
        /\ loc[t].freed = << <<"sampler", "ctx", "model">> >>
        /\ Cardinality(LiveOf("model") \cup LiveOf("ctx") \cup LiveOf("sampler")) = 3

\* C11: whatever parameters setInferenceParams stored (max_tokens zero or
\* negative included), an inference call on a ready model ends by returning
\* a string, generated text or a JSON payload: it never ends in an
\* exception and never asks for a buffer of an impossible size.
C11_AlwaysReturnsString ==
    \A t \in Threads :
        loc[t].op \in InferOps =>
            /\ pc[t] # "terminated"
            /\ loc[t].ret.kind \in {"none", "text", "json"}
            /\ ~NewThrows(loc[t].buf_capacity)

-----------------------------------------------------------------------------
(* sentinel.hpp called directly: sanitize and contains_injection as pure
   functions of their arguments.  One caller; loc holds its arguments and
   the values returned, pc its position. *)

\* longest text handed to sanitize
MaxText == 5

\* the bytes sanitize tells apart: space, tab, newline, a control byte that
\* is dropped, a byte >= 0x80 and a letter
TextBytes == {32, 9, 10, 1, 233, 97}

SanitizeInputs == UNION {[1..n -> TextBytes] : n \in 0..MaxText}

\* capacities: nothing, one byte, shorter than the longest input and as
\* long as it
SanitizeCapacities == {0, 1, MaxText - 2, MaxText}

toupper(c) == IF c \in 97..122 THEN c - 32 ELSE c

\* a phrase as written, in lower case, in upper case and capitalised
Casings(p) ==
    { p,
      [i \in 1..Len(p) |-> tolower(p[i])],
      [i \in 1..Len(p) |-> toupper(p[i])],
      [i \in 1..Len(p) |-> IF i = 1 THEN toupper(p[i]) ELSE tolower(p[i])] }

\* texts free of every phrase, near misses included
BenignTexts ==
    { <<>>, Str(<<"t","a","p">>), Str(<<"a","c","t"," "," ","a","s">>),
      Str(<<"i","g","n","o","r","e">>), Str(<<"D","A","N">>),
      Str(<<"m","o","d","e">>) }

InjectionInputs ==
    BenignTexts \cup
    { pre \o c \o post :
        pre  \in {<<>>, Str(<<"o","k"," ">>)},
        post \in {<<>>, Str(<<"!">>)},
        c    \in UNION {Casings(INJECTION_PATTERNS[k]) :
                            k \in 1..Len(INJECTION_PATTERNS)} }

TextCall0 ==
    [ fn |-> "none", input |-> <<>>, max_len |-> 0,
      result |-> <<>>, again |-> <<>>, found |-> FALSE ]

TextInit ==
    /\ g_state = g_state0
    /\ g_model_mutex = "free"
    /\ heap = [h \in Handles |-> FreeCell]
    /\ faults = {}
    /\ alive = TRUE
    /\ pc = "call"
    /\ \/ \E x \in SanitizeInputs, n \in SanitizeCapacities :
              loc = [TextCall0 EXCEPT !.fn = "sanitize", !.input = x, !.max_len = n]
       \/ \E x \in InjectionInputs :
              loc = [TextCall0 EXCEPT !.fn = "contains_injection", !.input = x]

TextFrame == UNCHANGED <<g_state, g_model_mutex, heap, faults, alive>>

\* result = sanitize(input, max_len)
sanitize_call ==
    /\ pc = "call"
    /\ loc.fn = "sanitize"
    /\ loc' = [loc EXCEPT !.result = sanitize(loc.input, loc.max_len)]
    /\ pc' = "returned"
    /\ TextFrame

\* again = sanitize(result, max_len)
sanitize_again ==
    /\ pc = "returned"
    /\ loc.fn = "sanitize"
    /\ loc' = [loc EXCEPT !.again = sanitize(loc.result, loc.max_len)]
    /\ pc' = "returned_twice"
    /\ TextFrame

\* found = contains_injection(input)
contains_injection_call ==
    /\ pc = "call"
    /\ loc.fn = "contains_injection"
    /\ loc' = [loc EXCEPT !.found = contains_injection(loc.input)]
    /\ pc' = "returned"
    /\ TextFrame

TextNext ==
    \/ sanitize_call
    \/ sanitize_again
    \/ contains_injection_call

SpecText == TextInit /\ [][TextNext]_vars

\* case-insensitive containment of a phrase in a text
ContainsAnyCasing(text, p) ==
    Contains([i \in 1..Len(text) |-> tolower(text[i])],
             [i \in 1..Len(p) |-> tolower(p[i])])

\* C12: contains_injection is true of every text that contains a phrase of
\* INJECTION_PATTERNS under any casing, and false of every text that
\* contains none of them under any casing.
C12_CaseInsensitiveMembership ==
    (pc = "returned" /\ loc.fn = "contains_injection") =>
        (loc.found <=>
            \E k \in 1..Len(INJECTION_PATTERNS) :
                ContainsAnyCasing(loc.input, INJECTION_PATTERNS[k]))

Range(seq) == {seq[i] : i \in 1..Len(seq)}

\* C13: sanitize is idempotent: sanitizing a sanitized text again with the
\* same capacity gives the same text, for inputs mixing spaces, tabs,
\* newlines, dropped control bytes and bytes >= 0x80, longer than the
\* capacity or not.
C13_SanitizeIdempotent ==
    (pc = "returned_twice" /\ loc.fn = "sanitize") => loc.again = loc.result

\* an input longer than the capacity with a tab, a control byte and a high
\* byte, sanitized twice to a non-empty text that differs from the input
C13_Witness ==
    /\ pc = "returned_twice"
    /\ loc.fn = "sanitize"
    /\ Len(loc.input) > loc.max_len
    /\ {9, 1, 233} \subseteq Range(loc.input)
    /\ loc.result # <<>>
    /\ loc.again = loc.result

\* C14: the text sanitize returns is at most max_len long and is decided by
\* the first max_len characters of the input alone: the same text comes
\* out of that prefix and of that prefix followed by any other byte.
C14_BoundedByPrefix ==
    (pc # "call" /\ loc.fn = "sanitize") =>
        LET prefix == SubSeq(loc.input, 1, Min(Len(loc.input), loc.max_len))
        IN  /\ Len(loc.result) <= loc.max_len
            /\ sanitize(prefix, loc.max_len) = loc.result
            /\ Len(prefix) = loc.max_len =>
                   \A b \in TextBytes :
                       sanitize(Append(prefix, b), loc.max_len) = loc.result

\* an input longer than the capacity whose result fills the capacity, the
\* bytes cut off being ones that would have been kept
C14_Witness ==
    /\ pc = "returned"
    /\ loc.fn = "sanitize"
    /\ loc.max_len > 0
    /\ Len(loc.input) > loc.max_len
    /\ Len(loc.result) = loc.max_len
    /\ Kept(loc.input[Len(loc.input)])

\* the simple format: the system prompt, an empty line, the user message
FallbackConcatenation(system_prompt, user_message) ==
    IF system_prompt = <<>> THEN user_message
    ELSE system_prompt \o <<10, 10>> \o user_message

\* C15: when the sizing pass reports a non-positive size, apply_chat_template
\* returns exactly the system prompt, "\n\n" and the user message (the user
\* message alone when the system prompt is empty) and the renderer is not
\* invoked a second time.
C15_SizingFailureFallsBack ==
    \A t \in Threads :
        (pc[t] = "run_inference" /\ loc[t].buf_size <= 0) =>
            /\ loc[t].prompt =
                   FallbackConcatenation(loc[t].system_prompt, loc[t].safe_query)
            /\ loc[t].renders = 1

\* the sizing pass failed on a model that has a template, with a system
\* prompt and a user message to join
C15_Witness ==
    \E t \in Threads :
        /\ pc[t] = "run_inference"
        /\ loc[t].buf_size <= 0
        /\ g_state.chat_template # ""
        /\ loc[t].system_prompt # <<>>
        /\ loc[t].safe_query # <<>>
        /\ loc[t].prompt = loc[t].system_prompt \o <<10, 10>> \o loc[t].safe_query

\* C16 as stated: when the model provides no chat template,
\* apply_chat_template produces the fallback concatenation whatever the
\* renderer would return.
C16_NoTemplateAlwaysFallback ==
    \A t \in Threads :
        (pc[t] = "run_inference" /\ g_state.chat_template = "") =>
            loc[t].prompt =
                FallbackConcatenation(loc[t].system_prompt, loc[t].safe_query)

\* C16: when the model provides no chat template, apply_chat_template hands
\* the renderer a null template, which selects the library's default
\* format; it returns the renderer's output when the sizing pass reports a
\* positive size and the fallback concatenation only when the sizing pass
\* reports a non-positive size.
C16_NoTemplateUsesDefault ==
    \A t \in Threads :
        (pc[t] = "run_inference" /\ g_state.chat_template = "") =>
            IF loc[t].buf_size <= 0
              THEN /\ loc[t].renders = 1
                   /\ loc[t].prompt =
                          FallbackConcatenation(loc[t].system_prompt, loc[t].safe_query)
              ELSE /\ loc[t].renders = 2
                   /\ loc[t].prompt # <<>>
                   /\ IsPrefix(loc[t].prompt,
                               Rendered("", loc[t].system_prompt, loc[t].safe_query))

\* a model without template whose prompt is the rendering of the default
\* format, not the concatenation
C16_Witness ==
    \E t \in Threads :
        /\ pc[t] = "run_inference"
        /\ g_state.chat_template = ""
        /\ loc[t].buf_size > 0
        /\ loc[t].prompt = Rendered("", loc[t].system_prompt, loc[t].safe_query)
        /\ loc[t].prompt #
               FallbackConcatenation(loc[t].system_prompt, loc[t].safe_query)

HasGrammarStage(stages) ==
    \E k \in 1..Len(stages) : stages[k][1] = "grammar"

\* C17: initModel given a grammar path that cannot be opened fails only when
\* the model load, the vocabulary or the context fails; otherwise it returns
\* true with grammar_text empty and the model ready, and the sampler chains
\* built while grammar_text is empty, the default one and that of every
\* later infer call, have no grammar stage.
C17_MissingGrammarSoftFails ==
    \A t \in Threads :
        /\ (loc[t].op = "initModel" /\ loc[t].grammar_path = "missing.gbnf"
                /\ pc[t] = "ret") =>
               /\ loc[t].ret.kind = "bool"
               /\ loc[t].ret.flag <=> loc[t].exit \notin {"load", "vocab", "ctx"}
               /\ g_state.grammar_text = ""
               /\ loc[t].ret.flag =>
                      /\ is_ready(g_state)
                      /\ g_state.sampler # 0 =>
                             ~HasGrammarStage(heap[g_state.sampler].stages)
        /\ (loc[t].op = "infer" /\ g_state.grammar_text = ""
                /\ loc[t].sampler # 0 /\ heap[loc[t].sampler].kind = "sampler") =>
               ~HasGrammarStage(heap[loc[t].sampler].stages)

\* initModel returned true for a grammar path that cannot be opened
C17_Witness ==
    \E t \in Threads :
        /\ loc[t].op = "initModel"
        /\ loc[t].grammar_path = "missing.gbnf"
        /\ pc[t] = "ret"
        /\ loc[t].ret.flag
        /\ g_state.grammar_text = ""
        /\ is_ready(g_state)

\* the ModelState a release leaves: every handle null, both texts empty
Released(gs) ==
    /\ gs.model = 0 /\ gs.ctx = 0 /\ gs.vocab = 0 /\ gs.sampler = 0
    /\ gs.chat_template = "" /\ gs.grammar_text = ""
    /\ ~is_ready(gs)

\* C18: releaseModel is idempotent: from any state, a second release leaves
\* the ModelState and the heap of the first (every handle null, both texts
\* empty, not ready) and frees nothing; so does a release of a state that
\* was never initialized; and that is the state releaseModel returns in.
C18_ReleaseIdempotent ==
    LET once  == reset(g_state, heap)
        twice == reset(once.gs, once.heap)
    IN  /\ Released(once.gs)
        /\ twice.gs = once.gs
        /\ twice.heap = once.heap
        /\ twice.log = <<>>
        /\ twice.faults = {}
        /\ (g_state.model = 0 /\ g_state.ctx = 0 /\ g_state.sampler = 0) =>
               /\ once.log = <<>>
               /\ once.heap = heap
        /\ \A t \in Threads :
               (pc[t] = "ret" /\ loc[t].op = "releaseModel") =>
                   /\ Released(g_state)
                   /\ once.gs = g_state
                   /\ Len(loc[t].freed) = 1

\* releaseModel returns having freed nothing: the state it ran on was never
\* initialized or already released
C18_Witness ==
    \E t \in Threads :
        /\ pc[t] = "ret"
        /\ loc[t].op = "releaseModel"
        /\ loc[t].freed = << <<>> >>
        /\ Released(g_state)

QueryOps == {"isModelReady", "getModelInfo"}

\* C19: isModelReady and getModelInfo take the state lock in shared mode:
\* a query arriving while another query is in its critical section enters
\* at once, so that two queries are in their critical sections together;
\* two threads are never in their critical sections together unless both
\* run queries.
C19_QueriesShareLock ==
    \A t, u \in Threads :
        t # u =>
            /\ (alive /\ pc[t] = "blocked" /\ pc[u] = "ret"
                    /\ loc[u].op \in QueryOps) =>
                   /\ ENABLED isModelReady(t)
                   /\ ENABLED getModelInfo(t)
            /\ (InCritical(t) /\ InCritical(u)) =>
                   (loc[t].op \in QueryOps /\ loc[u].op \in QueryOps)

\* the library calls of an inference up to the loop, in the order of the
\* stages: compose, tokenize, clear the session cache, priming decode,
\* sampler construction
StagesBeforeLoop ==
    << "llama_chat_apply_template", "llama_tokenize", "llama_memory_clear",
       "llama_decode", "create_sampler" >>

LoopCalls ==
    {"llama_sampler_sample", "llama_sampler_accept", "llama_decode",
     "llama_sampler_free"}

\* the calls made when run_inference fails at a stage, and the error returned
StageFailure ==
    [ tokenize  |-> [calls |-> 2, error |-> "Failed to tokenize prompt"],
      overflow  |-> [calls |-> 2, error |-> "Prompt too long for context window"],
      prime     |-> [calls |-> 4, error |-> "Failed to process prompt"],
      sampler   |-> [calls |-> 5, error |-> "Failed to create sampler"] ]

TokensFed(lc) ==
    LET decodes == CountOf(lc.calls, "llama_decode")
    IN  IF decodes = 0 THEN 0 ELSE lc.n_tokens + (decodes - 1)

\* C21: in every inference call that passed the budget check, whatever
\* parameters setInferenceParams stored, the tokens fed to the session
\* (the prompt plus one per decode of the loop) never exceed n_ctx.
C21_FedWithinContext ==
    \A t \in Threads :
        loc[t].op \in InferOps => TokensFed(loc[t]) <= g_state.n_ctx

\* the last llama_sampler_sample of the call returned the marker
SampledEog(lc) ==
    /\ CountOf(lc.calls, "llama_sampler_sample") > 0
    /\ lc.exit # "sample_throw"
    /\ lc.new_token = EOG

\* C22: when the sampled token is an end-of-generation marker the loop
\* stops at once: the marker's text is not appended, the marker is neither
\* accepted into the sampler nor decoded, nothing is sampled after it, and
\* the call returns the text accumulated so far as a success, the empty
\* string when the first sampled token is the marker.
C22_EogStopsAtOnce ==
    \A t \in Threads :
        (loc[t].op \in InferOps /\ SampledEog(loc[t])) =>
            LET calls == loc[t].calls
                n     == Len(calls)
            IN  /\ pc[t] = "ret"
                /\ loc[t].exit = "eog"
                /\ calls[n - 1] = "llama_sampler_sample"
                /\ calls[n] = "llama_sampler_free"
                /\ CountOf(calls, "llama_sampler_sample") = loc[t].i + 1
                /\ CountOf(calls, "llama_sampler_accept") = loc[t].i
                /\ CountOf(calls, "llama_decode") = loc[t].i + 1
                /\ loc[t].ret = TextRet(loc[t].response)
                /\ IsPrefix(loc[t].response, loc[t].pieces)
                /\ ~Contains(loc[t].pieces, PieceOf(EOG).bytes)
                /\ loc[t].i = 0 => loc[t].response = <<>>

\* the marker was drawn after one token had been generated: the call
\* returns that token's text
C22_Witness ==
    \E t \in Threads :
        /\ loc[t].op \in InferOps
        /\ pc[t] = "ret"
        /\ loc[t].exit = "eog"
        /\ loc[t].i = 1
        /\ loc[t].response # <<>>
        /\ loc[t].ret = TextRet(loc[t].response)

-----------------------------------------------------------------------------
(* Fair scheduling *)

\* the thread's lock_guard can return: it waits at a free mutex
CanAcquire(t) == alive /\ pc[t] = "blocked" /\ MutexAvailable

\* strong fairness of the acquisition: a thread that finds the mutex free
\* again and again while it waits takes it
FairLock(t) == <>[]~CanAcquire(t) \/ []<><<lock_guard(t)>>_vars

\* a step of the thread inside the JNI function it is in
Progress(t) ==
    \/ initModel_vocab(t)
    \/ initModel_ctx(t)
    \/ initModel_sampler(t)
    \/ compose_prompt(t)
    \/ ri_tokenize(t)
    \/ ri_prime(t)
    \/ ri_setup(t)
    \/ ri_sample(t)
    \/ ri_decode(t)
    \/ Return(t)

\* a running thread keeps running and a waiting thread is served; callers
\* are free to call or not
FairSpec ==
    /\ Spec
    /\ \A t \in Threads : WF_vars(Progress(t)) /\ FairLock(t)

\* C23: every inference call terminates: its loop samples at most
\* max_tokens times, the call returns and releases the mutex, and under
\* fair scheduling every caller waiting for the mutex acquires it.
C23_CallsTerminate ==
    /\ [](\A t \in Threads :
              loc[t].op \in InferOps =>
                  CountOf(loc[t].calls, "llama_sampler_sample")
                      <= Max(0, g_state.max_tokens))
    /\ \A t \in Threads :
           /\ (loc[t].op \in InferOps /\ InCritical(t)) ~> (pc[t] = "idle")
           /\ (pc[t] = "blocked") ~> (pc[t] # "blocked")

\* C24: tokenize calls the tokenizer at most twice, a second time exactly
\* when the first call returned a negative value and then with a buffer of
\* that magnitude; the vector returned has as many entries as the last call
\* produced and is empty only when the last call returned a non-positive
\* count, which run_inference turns into "Failed to tokenize prompt".
C24_TokenizeRetriesOnce ==
    \A t \in Threads :
        loc[t].tokenizer_returns # <<>> =>
            LET returns == loc[t].tokenizer_returns
                buffers == loc[t].tokenizer_buffers
                last    == returns[Len(returns)]
            IN  /\ Len(returns) \in {1, 2}
                /\ loc[t].tokenizer_calls = Len(returns)
                /\ Len(buffers) = Len(returns)
                /\ Len(returns) = 2 <=> returns[1] < 0
                /\ Len(returns) = 2 => buffers[2] = -returns[1]
                /\ loc[t].n_tokens = (IF last > 0 THEN last ELSE 0)
                /\ loc[t].exit = "tokenize" <=> last <= 0
                /\ loc[t].exit = "tokenize" =>
                       /\ pc[t] = "ret"
                       /\ loc[t].ret = JsonRet(ErrorJson("Failed to tokenize prompt"))

\* the first call asked for a larger buffer and the retry filled it
C24_Witness ==
    \E t \in Threads :
        /\ pc[t] = "ri_prime"
        /\ Len(loc[t].tokenizer_returns) = 2
        /\ loc[t].tokenizer_returns[1] < 0
        /\ loc[t].tokenizer_buffers[2] = loc[t].n_tokens
        /\ loc[t].n_tokens = loc[t].tokenizer_returns[2]

\* the stages of a chain built for this grammar text are temperature,
\* top-p keeping one candidate, the grammar rooted at "root" exactly when
\* the text is non-empty and compiles, and the draw seeded with 42, last
WellOrderedChain(stages, grammar_text) ==
    LET n == Len(stages)
    IN  /\ n \in {3, 4}
        /\ stages[1][1] = "temp"
        /\ stages[2][1] = "top_p" /\ stages[2][3] = 1
        /\ stages[n] = <<"dist", 42>>
        /\ n = 4 => stages[3] = <<"grammar", "root">>
        /\ n = 4 <=> (grammar_text # "" /\ GrammarCompiles(grammar_text))

\* C25: every sampler chain built, the default one of initModel and the
\* one of each inference call, has its stages in the order temperature,
\* top-p (one candidate kept), optional grammar, seeded draw; the grammar
\* stage is there exactly when the grammar text passed is non-empty and
\* compiles; a grammar that does not compile does not abort the build; the
\* draw is last, always with the same seed.
C25_ChainOrder ==
    /\ (g_state.sampler # 0 /\ heap[g_state.sampler].kind = "sampler") =>
           WellOrderedChain(heap[g_state.sampler].stages, g_state.grammar_text)
    /\ \A t \in Threads :
           (loc[t].op \in InferOps /\ loc[t].sampler # 0
                /\ heap[loc[t].sampler].kind = "sampler") =>
               /\ WellOrderedChain(heap[loc[t].sampler].stages, loc[t].grammar_text)
               /\ heap[loc[t].sampler].stages[1][2] = g_state.temperature
               /\ heap[loc[t].sampler].stages[2][2] = g_state.top_p
    /\ \A t \in Threads :
           (pc[t] \in {"ri_loop", "ri_decode"} /\ loc[t].grammar_text # ""
                /\ ~GrammarCompiles(loc[t].grammar_text)) =>
               /\ loc[t].sampler # 0
               /\ ~HasGrammarStage(heap[loc[t].sampler].stages)

\* a call whose grammar text does not compile samples from a chain of
\* three stages, while the default chain holds a grammar stage
C25_Witness ==
    \E t \in Threads :
        /\ pc[t] = "ri_loop"
        /\ loc[t].grammar_text # ""
        /\ ~GrammarCompiles(loc[t].grammar_text)
        /\ Len(heap[loc[t].sampler].stages) = 3
        /\ g_state.sampler # 0
        /\ Len(heap[g_state.sampler].stages) = 4

\* positions of run_inference, the grammar text of the call chosen
InRunInference(p) ==
    p \in {"run_inference", "ri_prime", "ri_setup", "ri_loop", "ri_decode"}

\* C26: infer and inferWithGrammar leave every field of ModelState as it
\* is, on every path: no step taken while a thread is in one of them
\* changes g_state or the default sampler chain; the chain a call samples
\* from is never the default one; the grammar inferWithGrammar reads stays
\* in the call, and infer runs with the grammar text loaded by initModel.
C26_InferenceFrame ==
    [][ (\E t \in Threads : loc[t].op \in InferOps \/ loc'[t].op \in InferOps) =>
            /\ g_state' = g_state
            /\ g_state.sampler # 0 =>
                   heap'[g_state.sampler] = heap[g_state.sampler]
            /\ \A t \in Threads :
                   loc'[t].op \in InferOps =>
                       /\ loc'[t].sampler # 0 => loc'[t].sampler # g_state.sampler
                       /\ (loc'[t].op = "infer" /\ InRunInference(pc'[t])) =>
                              loc'[t].grammar_text = g_state.grammar_text
      ]_vars

\* inferWithGrammar generated under a grammar read for the call while the
\* model holds none, default chain in place
C26_Witness ==
    \E t \in Threads :
        /\ loc[t].op = "inferWithGrammar"
        /\ pc[t] = "ri_loop"
        /\ loc[t].i > 0
        /\ loc[t].grammar_text # ""
        /\ g_state.grammar_text = ""
        /\ g_state.sampler # 0
        /\ heap[g_state.sampler].kind = "sampler"
        /\ g_state.max_tokens # 256

\* the text contains a phrase of the denylist, under any casing
Denylisted(text) ==
    \E k \in 1..Len(INJECTION_PATTERNS) :
        ContainsAnyCasing(text, INJECTION_PATTERNS[k])

\* C27: in infer and inferWithGrammar the sanitized user query composed
\* into the prompt never contains a denylisted phrase: a request whose
\* query contains one after sanitization is answered with the blocked
\* response and does not reach the model.
C27_SanitizedQueryClean ==
    \A t \in Threads :
        loc[t].op \in InferOps =>
            /\ pc[t] \in {"template", "run_inference"} =>
                   ~Denylisted(loc[t].safe_query)
            /\ Denylisted(sanitize(loc[t].user_query, QueryMaxLen)) =>
                   /\ pc[t] = "ret"
                   /\ loc[t].exit \in {"blocked", "not_ready"}

=============================================================================
